---- MODULE Spec2Model ----
(***************************************************************************)
(* A model of src/feeling.py: the WhatsApp transcript sentiment analyser.  *)
(* One upload is one linear run: read -> detect/decode -> parse -> filter  *)
(* -> classify -> aggregate -> render.                                     *)
(*                                                                         *)
(* Text is a sequence of characters.  A character is a string: an ASCII    *)
(* character is itself ("a", ":"), any other character is named by its     *)
(* code point ("U+00E9").  A byte is a string too: an ASCII byte is its    *)
(* character, any other byte is named by its value ("xE9").                *)
(***************************************************************************)
EXTENDS Integers, Sequences, FiniteSets, TLC

(***************************************************************************)
(* Characters                                                              *)
(***************************************************************************)
\* An ASCII string literal as a sequence of characters.
S(str) == [i \in 1..Len(str) |-> SubSeq(str, i, i)]

EnDash == "U+2013"
Digit == {"0", "1", "2", "3", "4", "5", "6", "7", "8", "9"}
\* What \s matches and str.strip() removes, within the model's alphabet.
Space == {" ", "\t", "U+00A0"}

\* str.lower() on one character.
UpperChars == S("ABCDEFGHIJKLMNOPQRSTUVWXYZ") \o <<"U+00CD", "U+00C7", "U+00C3">>
LowerChars == S("abcdefghijklmnopqrstuvwxyz") \o <<"U+00ED", "U+00E7", "U+00E3">>
LowerChar(c) ==
    IF \E k \in 1..Len(UpperChars) : UpperChars[k] = c
    THEN LowerChars[CHOOSE k \in 1..Len(UpperChars) : UpperChars[k] = c]
    ELSE c
Lower(s) == [i \in 1..Len(s) |-> LowerChar(s[i])]

\* The first position j >= i of s that is past the end or holds no character of C.
SkipIn(s, i, C) ==
    CHOOSE j \in i..(Len(s) + 1) :
        /\ \A k \in i..(j - 1) : s[k] \in C
        /\ (j = Len(s) + 1 \/ s[j] \notin C)
\* The first position j >= i of s that is past the end or holds a character of C.
FindIn(s, i, C) ==
    CHOOSE j \in i..(Len(s) + 1) :
        /\ \A k \in i..(j - 1) : s[k] \notin C
        /\ (j = Len(s) + 1 \/ s[j] \in C)
At(s, i, C) == i >= 1 /\ i <= Len(s) /\ s[i] \in C

\* str.strip()
Trimmed(s, a) ==
    IF a > Len(s) THEN <<>>
    ELSE SubSeq(s, a, CHOOSE j \in a..Len(s) :
                         /\ s[j] \notin Space
                         /\ \A k \in (j + 1)..Len(s) : s[k] \in Space)
Strip(s) == Trimmed(s, SkipIn(s, 1, Space))

\* Whether pattern p occurs in s as a substring (str.contains of a literal).
Contains(s, p) ==
    \E i \in 1..(Len(s) - Len(p) + 1) : SubSeq(s, i, i + Len(p) - 1) = p

(***************************************************************************)
(* The header patterns (lines 70-74).  A match is [ok |-> TRUE, date, time,*)
(* author, msg] with the groups as re captures them, or NoMatch.           *)
(***************************************************************************)
NoMatch == [ok |-> FALSE]

\* A position is a place in the line, or 0 once the match has failed.
\* One character of C at i.
Expect(s, i, C) == IF i > 0 /\ At(s, i, C) THEN i + 1 ELSE 0
\* C* at i: the run is taken whole, for what follows it in the patterns is
\* never a character of C.
Many(s, i, C) == IF i = 0 THEN 0 ELSE SkipIn(s, i, C)
Between(i, j, lo, hi) == IF i > 0 /\ j - i \in lo..hi THEN j ELSE 0
\* \d{lo,hi} at i
Digits(s, i, lo, hi) == Between(i, Many(s, i, Digit), lo, hi)
\* C+ at i
Some(s, i, C) == Between(i, Many(s, i, C), 1, Len(s))

\* (\d{1,2}/\d{1,2}/\d{2,4}) at position i: the position after it.
DateEnd(s, i) ==
    Digits(s, Expect(s, Digits(s, Expect(s, Digits(s, i, 1, 2), {"/"}), 1, 2), {"/"}),
           2, 4)
\* (\d{1,2}:\d{2}) at position i: the position after it.
TimeEnd(s, i) ==
    Expect(s, Expect(s, Expect(s, Digits(s, i, 1, 2), {":"}), Digit), Digit)

\* The date from i, the separator sep+ and the time: the date is s[i..d-1], the
\* time s[t..e-1].
StampE(s, i, d, t) == [i |-> i, d |-> d, t |-> t, e |-> TimeEnd(s, t)]
StampT(s, i, d, sep) == StampE(s, i, d, Some(s, d, sep))
Stamp(s, i, sep) == StampT(s, i, DateEnd(s, i), sep)

\* \s*([^:]+?):\s*(.*)$ from position i, the author lazy or greedy alike: the
\* author cannot hold ":" and must reach the first one.  \s* takes every
\* leading space unless that leaves the author empty, and then gives one back.
AuthorStart(a, colon) == IF a >= colon THEN colon - 1 ELSE a
Groups(s, i, colon, st) ==
    IF colon > Len(s) \/ colon = i THEN NoMatch
    ELSE [ok |-> TRUE,
          date |-> SubSeq(s, st.i, st.d - 1),
          time |-> SubSeq(s, st.t, st.e - 1),
          author |-> SubSeq(s, AuthorStart(SkipIn(s, i, Space), colon), colon - 1),
          msg |-> SubSeq(s, SkipIn(s, colon + 1, Space), Len(s))]
AuthorMsg(s, i, st) == IF i = 0 THEN NoMatch ELSE Groups(s, i, FindIn(s, i, {":"}), st)

\* \s*[dashes] after the time, then the author and the message.
Dashed(s, st, dashes) == AuthorMsg(s, Expect(s, Many(s, st.e, Space), dashes), st)
\* \]? after the time takes a "]" unless nothing but the ":" follows it, and then
\* the "]" is the author.
Bracketed(s, st) ==
    AuthorMsg(s, IF At(s, st.e, {"]"}) /\ ~At(s, st.e + 1, {":"}) THEN st.e + 1
                 ELSE st.e, st)

\* ^(date)[,\s]+(time)\s*[-{en dash}]\s*([^:]+?):\s*(.*)$
Pattern1(s) == Dashed(s, Stamp(s, 1, Space \cup {","}), {"-", EnDash})
\* ^\[?(date)[,\s]+(time)\]?\s*([^:]+?):\s*(.*)$
Pattern2(s) == Bracketed(s, Stamp(s, IF At(s, 1, {"["}) THEN 2 ELSE 1, Space \cup {","}))
\* ^(date)\s+(time)\s*-\s*([^:]+):\s*(.*)$
Pattern3(s) == Dashed(s, Stamp(s, 1, Space), {"-"})

(***************************************************************************)
(* Bytes, code points and the codecs of bytes.decode (line 49)             *)
(***************************************************************************)
HexDigits == "0123456789ABCDEF"
\* The printable ASCII characters a string literal can hold: the codes 32..95
\* and 97..126 (a grave accent, code 96, is written by its number).
AsciiLow == " !\"#$%&'()*+,-./0123456789:;<=>?@ABCDEFGHIJKLMNOPQRSTUVWXYZ[\\]^_"
AsciiHigh == "abcdefghijklmnopqrstuvwxyz{|}~"

HexVal(h) == (CHOOSE k \in 1..16 : SubSeq(HexDigits, k, k) = h) - 1
HexDigit(n) == SubSeq(HexDigits, n + 1, n + 1)
RECURSIVE Hex(_, _)
\* n in hexadecimal, at least w digits.
Hex(n, w) ==
    IF n < 16 /\ w <= 1 THEN HexDigit(n)
    ELSE Hex(n \div 16, w - 1) \o HexDigit(n % 16)
RECURSIVE HexNum(_)
HexNum(h) ==
    IF Len(h) = 0 THEN 0
    ELSE 16 * HexNum(SubSeq(h, 1, Len(h) - 1)) + HexVal(SubSeq(h, Len(h), Len(h)))

\* The code of an ASCII character or byte written as itself.
AsciiCode ==
    [c \in {"\t", "\n", "\r"} |-> CASE c = "\t" -> 9 [] c = "\n" -> 10 [] OTHER -> 13]
    @@ [c \in {SubSeq(AsciiLow, k, k) : k \in 1..Len(AsciiLow)} |->
            31 + CHOOSE k \in 1..Len(AsciiLow) : SubSeq(AsciiLow, k, k) = c]
    @@ [c \in {SubSeq(AsciiHigh, k, k) : k \in 1..Len(AsciiHigh)} |->
            96 + CHOOSE k \in 1..Len(AsciiHigh) : SubSeq(AsciiHigh, k, k) = c]
Ord(c) == AsciiCode[c]
Plain(n) == n \in {9, 10, 13} \/ n \in 32..95 \/ n \in 97..126
Chr(n) ==
    CASE n = 9 -> "\t"
      [] n = 10 -> "\n"
      [] n = 13 -> "\r"
      [] n >= 97 -> SubSeq(AsciiHigh, n - 96, n - 96)
      [] OTHER -> SubSeq(AsciiLow, n - 31, n - 31)

ByteVal(b) == IF Len(b) = 1 THEN Ord(b) ELSE HexNum(SubSeq(b, 2, Len(b)))
ByteOf(n) == IF Plain(n) THEN Chr(n) ELSE "x" \o Hex(n, 2)
CodePoint(c) == IF Len(c) = 1 THEN Ord(c) ELSE HexNum(SubSeq(c, 3, Len(c)))
CharOf(n) == IF Plain(n) THEN Chr(n) ELSE "U+" \o Hex(n, 4)

\* What a decode attempt gives: the text, or the exception it raises.
Decoded(t) == [ok |-> TRUE, text |-> t]
UnicodeDecodeError == [ok |-> FALSE, exc |-> "UnicodeDecodeError"]
LookupError == [ok |-> FALSE, exc |-> "LookupError"]

DecodeLatin1(raw) == Decoded([i \in 1..Len(raw) |-> CharOf(ByteVal(raw[i]))])

DecodeAscii(raw) ==
    IF \E i \in 1..Len(raw) : ByteVal(raw[i]) >= 128 THEN UnicodeDecodeError
    ELSE Decoded([i \in 1..Len(raw) |-> CharOf(ByteVal(raw[i]))])

\* cp1252 for the bytes 0x80..0x9F; "" where the code page defines nothing.
Cp1252High ==
    << "U+20AC", "", "U+201A", "U+0192", "U+201E", "U+2026", "U+2020", "U+2021",
       "U+02C6", "U+2030", "U+0160", "U+2039", "U+0152", "", "U+017D", "",
       "", "U+2018", "U+2019", "U+201C", "U+201D", "U+2022", "U+2013", "U+2014",
       "U+02DC", "U+2122", "U+0161", "U+203A", "U+0153", "", "U+017E", "U+0178" >>
Cp1252Char(n) == IF n \in 128..159 THEN Cp1252High[n - 127] ELSE CharOf(n)
DecodeCp1252(raw) ==
    IF \E i \in 1..Len(raw) : Cp1252Char(ByteVal(raw[i])) = "" THEN UnicodeDecodeError
    ELSE Decoded([i \in 1..Len(raw) |-> Cp1252Char(ByteVal(raw[i]))])

\* Strict UTF-8: the length of the well-formed sequence at position i, 0 if none.
Utf8Len(raw, i) ==
    LET b(k) == IF i + k <= Len(raw) THEN ByteVal(raw[i + k]) ELSE 0
        cont(k) == b(k) \in 128..191
    IN  CASE b(0) < 128 -> 1
          [] b(0) \in 194..223 /\ cont(1) -> 2
          [] b(0) = 224 /\ b(1) \in 160..191 /\ cont(2) -> 3
          [] b(0) \in (225..236) \cup {238, 239} /\ cont(1) /\ cont(2) -> 3
          [] b(0) = 237 /\ b(1) \in 128..159 /\ cont(2) -> 3
          [] b(0) = 240 /\ b(1) \in 144..191 /\ cont(2) /\ cont(3) -> 4
          [] b(0) \in 241..243 /\ cont(1) /\ cont(2) /\ cont(3) -> 4
          [] b(0) = 244 /\ b(1) \in 128..143 /\ cont(2) /\ cont(3) -> 4
          [] OTHER -> 0
Utf8Point(raw, i, n) ==
    LET b(k) == ByteVal(raw[i + k])
    IN  CASE n = 1 -> b(0)
          [] n = 2 -> (b(0) - 192) * 64 + (b(1) - 128)
          [] n = 3 -> (b(0) - 224) * 4096 + (b(1) - 128) * 64 + (b(2) - 128)
          [] n = 4 -> (b(0) - 240) * 262144 + (b(1) - 128) * 4096
                      + (b(2) - 128) * 64 + (b(3) - 128)
\* The text of well-formed UTF-8, or the error.  A sequence starts at every
\* byte that is no continuation byte (0x80..0xBF); the bytes are well formed
\* when each start opens a well-formed sequence that ends where the next
\* start, or the end of the bytes, is.  st holds the starts in order.
Utf8Text(raw, st) ==
    IF /\ (raw # <<>> => st # <<>> /\ st[1] = 1)
       /\ \A k \in 1..Len(st) :
             /\ Utf8Len(raw, st[k]) > 0
             /\ st[k] + Utf8Len(raw, st[k])
                  = (IF k < Len(st) THEN st[k + 1] ELSE Len(raw) + 1)
    THEN Decoded([k \in 1..Len(st) |->
                    CharOf(Utf8Point(raw, st[k], Utf8Len(raw, st[k])))])
    ELSE UnicodeDecodeError
DecodeUtf8(raw) ==
    Utf8Text(raw, SelectSeq([i \in 1..Len(raw) |-> i],
                            LAMBDA i : ByteVal(raw[i]) \notin 128..191))

\* bytes.decode(enc): empty bytes are the empty text whatever enc is; otherwise
\* the codec is looked up by name, and a name Python has no codec for raises
\* LookupError.
Decode(raw, enc) ==
    CASE raw = <<>> -> Decoded(<<>>)
      [] enc \in {"utf-8", "UTF-8"} -> DecodeUtf8(raw)
      [] enc \in {"latin-1", "iso-8859-1", "ISO-8859-1"} -> DecodeLatin1(raw)
      [] enc \in {"cp1252", "Windows-1252"} -> DecodeCp1252(raw)
      [] enc \in {"ascii"} -> DecodeAscii(raw)
      [] OTHER -> LookupError

\* str.encode("utf-8"), to write the uploaded files.
Utf8Bytes(c) ==
    LET n == CodePoint(c)
        bs == CASE n < 128 -> <<n>>
                [] n \in 128..2047 -> <<192 + (n \div 64), 128 + (n % 64)>>
                [] OTHER -> <<224 + (n \div 4096), 128 + ((n \div 64) % 64),
                              128 + (n % 64)>>
    IN  [k \in 1..Len(bs) |-> ByteOf(bs[k])]
RECURSIVE EncodeUtf8(_)
EncodeUtf8(t) ==
    CASE Len(t) = 0 -> <<>>
      [] Len(t) = 1 -> Utf8Bytes(t[1])
      [] OTHER -> EncodeUtf8(SubSeq(t, 1, Len(t) \div 2))
                  \o EncodeUtf8(SubSeq(t, Len(t) \div 2 + 1, Len(t)))
\* str.encode("latin-1"), for text of code points below 256.
EncodeLatin1(t) == [i \in 1..Len(t) |-> ByteOf(CodePoint(t[i]))]

\* str.splitlines() (line 61): the line boundaries of the model's alphabet, a
\* "\r\n" one boundary, no empty last line after a final boundary.
LineBreak == {"\n", "\r", "U+0085", "U+000B", "U+000C", "U+001C", "U+001D",
              "U+001E", "U+2028", "U+2029"}
RECURSIVE SplitLines(_)
SplitLines(t) ==
    IF t = <<>> THEN <<>>
    ELSE LET e == FindIn(t, 1, LineBreak)
             n == IF e < Len(t) /\ t[e] = "\r" /\ t[e + 1] = "\n" THEN e + 2 ELSE e + 1
         IN  <<SubSeq(t, 1, e - 1)>> \o SplitLines(SubSeq(t, n, Len(t)))

(***************************************************************************)
(* The parser (lines 70-98)                                                *)
(***************************************************************************)
\* The patterns in the order of the list (lines 70-74).
patterns(line) == <<Pattern1(line), Pattern2(line), Pattern3(line)>>

\* A parser in which the last pattern that matches wins.
LastMatch(line) ==
    LET ms == patterns(line)
    IN  IF \E k \in 1..Len(ms) : ms[k].ok
        THEN ms[CHOOSE k \in 1..Len(ms) : ms[k].ok /\ \A j \in (k + 1)..Len(ms) : ~ms[j].ok]
        ELSE NoMatch

\* The inner loop (lines 83-94): the first pattern that matches, or NoMatch.
First(ms) ==
    IF \E k \in 1..Len(ms) : ms[k].ok
    THEN ms[CHOOSE k \in 1..Len(ms) : ms[k].ok /\ \A j \in 1..(k - 1) : ~ms[j].ok]
    ELSE NoMatch
FirstMatch(line) == First(patterns(line))

\* The record of a match (lines 86-92).
Row(m) == [date |-> Strip(m.date), time |-> Strip(m.time),
           author |-> Strip(m.author), message |-> Strip(m.msg)]

\* A parser that joins a continuation line without the space between.
MatchedNoSpace(rs, line, m) ==
    CASE m.ok -> Append(rs, Row(m))
      [] rs # <<>> -> [rs EXCEPT ![Len(rs)].message = @ \o line]
      [] OTHER -> rs

\* Lines 85-98 for the trimmed line and what the patterns gave: a new record, or
\* the line joined to the last record's message, or nothing.
Matched(rs, line, m) ==
    CASE m.ok -> Append(rs, Row(m))
      [] rs # <<>> -> [rs EXCEPT ![Len(rs)].message = @ \o <<" ">> \o line]
      [] OTHER -> rs
Trimmed_line(rs, line) == IF line = <<>> THEN rs ELSE Matched(rs, line, FirstMatch(line))
\* One pass of the outer loop (lines 78-98) over the raw line l.
ParseStep(rs, l) == Trimmed_line(rs, Strip(l))

(***************************************************************************)
(* The filter (lines 108-123)                                              *)
(***************************************************************************)
C_CEDILLA == "U+00E7"
A_TILDE == "U+00E3"
I_ACUTE == "U+00ED"
system_keywords ==
    << S("mensagens e chamadas"),
       S("criptografadas de ponta"),
       S("adicionou"),
       S("saiu"),
       S("removeu"),
       S("alterou o assunto"),
       S("alterou a descri") \o <<C_CEDILLA, A_TILDE>> \o S("o"),
       S("alterou o ") \o <<I_ACUTE>> \o S("cone") >>

MinLength == 2

\* A filter that looks for the keyword in the message as written, without
\* lowering its case.
DropKeywordCased(d, keyword) == SelectSeq(d, LAMBDA r : ~Contains(r.message, keyword))

\* df[~df['message'].str.lower().str.contains(keyword)] (line 120)
DropKeyword(d, keyword) ==
    SelectSeq(d, LAMBDA r : ~Contains(Lower(r.message), keyword))
\* The loop of lines 119-120 from keyword k on.
RECURSIVE DropKeywords(_, _)
DropKeywords(d, k) ==
    IF k > Len(system_keywords) THEN d
    ELSE DropKeywords(DropKeyword(d, system_keywords[k]), k + 1)
\* df[df['message'].str.len() > 2] (line 123)
LongEnough(r) == Len(r.message) > MinLength
FilterDf(d) == SelectSeq(DropKeywords(d, 1), LongEnough)

(***************************************************************************)
(* The classifier's answers and the labelling loop (lines 137-162)         *)
(***************************************************************************)
Labels == {"POS", "NEU", "NEG"}
\* A probability n/d is the pair <<n, d>>.
Zero == <<0, 1>>
One == <<1, 1>>
MaxPredictChars == 500

\* dict.get(key, default)
Get(d, key, default) == IF key \in DOMAIN d THEN d[key] ELSE default

\* A loop whose except clause appends NEU but no probability of 1 for it.
LabelledNoMass(o) ==
    IF o.ok
    THEN [sentimento |-> o.output,
          prob_POS |-> Get(o.probas, "POS", Zero),
          prob_NEU |-> Get(o.probas, "NEU", Zero),
          prob_NEG |-> Get(o.probas, "NEG", Zero)]
    ELSE [sentimento |-> "NEU", prob_POS |-> Zero, prob_NEU |-> Zero,
          prob_NEG |-> Zero]

\* One pass of the loop (lines 146-157): the values appended to sentiments,
\* probs_pos, probs_neu and probs_neg for the answer o of analyzer.predict.
Labelled(o) ==
    IF o.ok
    THEN [sentimento |-> o.output,
          prob_POS |-> Get(o.probas, "POS", Zero),
          prob_NEU |-> Get(o.probas, "NEU", Zero),
          prob_NEG |-> Get(o.probas, "NEG", Zero)]
    ELSE [sentimento |-> "NEU", prob_POS |-> Zero, prob_NEU |-> One,
          prob_NEG |-> Zero]

\* str(msg)[:500]
Truncated(msg) ==
    SubSeq(msg, 1, IF Len(msg) < MaxPredictChars THEN Len(msg) ELSE MaxPredictChars)

\* df["sentimento"] = sentiments and the three probability columns (159-162):
\* row i takes the i-th element of each list, a column of that name replaced.
AssignColumns(d, ss, pp, pn, pg) ==
    [i \in 1..Len(d) |->
        [sentimento |-> ss[i], prob_POS |-> pp[i], prob_NEU |-> pn[i],
         prob_NEG |-> pg[i]] @@ d[i]]

(***************************************************************************)
(* The projections (lines 177-252)                                         *)
(***************************************************************************)
\* Series.value_counts(): each value seen, with the number of times.
RECURSIVE ValueCounts(_)
ValueCounts(xs) ==
    IF xs = <<>> THEN <<>>
    ELSE LET c == ValueCounts(SubSeq(xs, 1, Len(xs) - 1))
             x == xs[Len(xs)]
         IN  IF x \in DOMAIN c THEN [c EXCEPT ![x] = @ + 1] ELSE c @@ (x :> 1)
Column(d, f) == [i \in 1..Len(d) |-> d[i][f]]
RECURSIVE SumOver(_, _)
SumOver(f, D) ==
    IF D = {} THEN 0 ELSE LET x == CHOOSE x \in D : TRUE IN f[x] + SumOver(f, D \ {x})
Total(c) == SumOver(c, DOMAIN c)

\* value_counts(normalize=True) of one group, unstacked over the columns cols
\* with fill_value=0: the share n/d of each label.
Shares(xs, cols) ==
    LET c == ValueCounts(xs)
    IN  [l \in cols |-> <<Get(c, l, 0), Len(xs)>>]

\* pd.to_datetime(date, dayfirst=True, errors="coerce") then .dt.date: the
\* calendar date <<year, month, day>>, or NaT.  A year of two digits is 20yy.
NaT == <<>>
RECURSIVE Number(_)
Number(ds) ==
    IF ds = <<>> THEN 0 ELSE 10 * Number(SubSeq(ds, 1, Len(ds) - 1)) + Ord(ds[Len(ds)]) - 48
DaysIn(y, m) ==
    CASE m \in {4, 6, 9, 11} -> 30
      [] m = 2 -> IF y % 4 = 0 /\ (y % 100 # 0 \/ y % 400 = 0) THEN 29 ELSE 28
      [] OTHER -> 31
Calendar(d, m, y) ==
    IF m \in 1..12 /\ d >= 1 /\ d <= DaysIn(y, m) /\ y >= 1 THEN <<y, m, d>> ELSE NaT
Year(ds) == IF Len(ds) = 2 THEN 2000 + Number(ds) ELSE Number(ds)
DayMonthYear(date, a, b) ==
    Calendar(Number(SubSeq(date, 1, a - 1)), Number(SubSeq(date, a + 1, b - 1)),
             Year(SubSeq(date, b + 1, Len(date))))
SecondSlash(date, a) == DayMonthYear(date, a, FindIn(date, a + 1, {"/"}))
ParseDate(date) == SecondSlash(date, FindIn(date, 1, {"/"}))

\* A daily trend that drops the undated rows from df itself.
WithDatetimeDropping(d) ==
    SelectSeq([i \in 1..Len(d) |-> [datetime |-> ParseDate(d[i].date)] @@ d[i]],
              LAMBDA r : r.datetime # NaT)
\* A daily trend that keeps the rows without a date.
KeepNaT(d) == d

\* df["datetime"] = ... (line 200): the column added, or replaced.
WithDatetime(d) == [i \in 1..Len(d) |-> [datetime |-> ParseDate(d[i].date)] @@ d[i]]
\* df.dropna(subset=["datetime"]) (line 201)
DropNaT(d) == SelectSeq(d, LAMBDA r : r.datetime # NaT)
\* groupby(key)[column]: the rows' values of column f in the group k of key.
Group(d, key, k, f) == Column(SelectSeq(d, LAMBDA r : r[key] = k), f)
\* groupby(key)["sentimento"].value_counts(normalize=True).unstack(fill_value=0)
\* (lines 204, 230)
Proportions(d, key) ==
    LET cols == {d[i].sentimento : i \in 1..Len(d)}
    IN  [k \in {d[i][key] : i \in 1..Len(d)} |->
            Shares(Group(d, key, k, "sentimento"), cols)]
Daily(d) == Proportions(DropNaT(d), "datetime")

\* A percentage cut after its first decimal instead of rounded.
Truncate1(x) == <<(1000 * x[1]) \div x[2], 10>>

\* (x * 100).round(1) of the share x = n/d (line 238), in tenths of a percent:
\* the nearest tenth, a tie to the even one.
Round1(x) ==
    LET q == (1000 * x[1]) \div x[2]
        r == (1000 * x[1]) % x[2]
    IN  <<CASE 2 * r > x[2] -> q + 1
            [] 2 * r = x[2] -> q + (q % 2)
            [] OTHER -> q,
          10>>

\* The rows of author_summary (lines 230-232), one per author.
AuthorRows(d) ==
    LET p == Proportions(d, "author")
        n == ValueCounts(Column(d, "author"))
    IN  {[author |-> a, share |-> p[a], Total_Msgs |-> n[a]] : a \in DOMAIN p}
\* sort_values('Total_Msgs', ascending=False) (line 233): an order of the rows
\* by falling total; rows of equal total in either order.
Sorted(rs, t) ==
    /\ Len(t) = Cardinality(rs)
    /\ {t[i] : i \in 1..Len(t)} = rs
    /\ \A i \in 1..(Len(t) - 1) : t[i].Total_Msgs >= t[i + 1].Total_Msgs
\* Lines 236-238: every percentage column times 100, rounded to one decimal.
Formatted(t) ==
    [i \in 1..Len(t) |->
        [t[i] EXCEPT !.share = [l \in DOMAIN @ |-> Round1(@[l])]]]

(***************************************************************************)
(* The run.  uploaded_file, chardet and classifier are the run's           *)
(* surroundings, fixed when it starts: the upload, the answer              *)
(* chardet.detect gives for its bytes, and what pysentimiento does.  The   *)
(* rest is the script's own state; pc is the place the script has reached, *)
(* and calls is the record of the calls of analyzer.predict so far: the    *)
(* text passed and the answer.                                             *)
(***************************************************************************)
VARIABLES uploaded_file, chardet, classifier,
          pc, screen, exception,
          raw_data, encoding_detected, enc_i, text_decoded, encoding_used,
          text, line_i, rows, df,
          analyzer, msg_i, calls, sentiments, probs_pos, probs_neu, probs_neg,
          sent_counts, daily, author_summary, metrics

surroundings == <<uploaded_file, chardet, classifier>>
decoding == <<raw_data, encoding_detected, enc_i, text_decoded, encoding_used>>
parsing == <<text, line_i, rows>>
labelling == <<analyzer, msg_i, calls, sentiments, probs_pos, probs_neu, probs_neg>>
projections == <<sent_counts, daily, author_summary, metrics>>
vars == <<surroundings, pc, screen, exception, decoding, parsing, df, labelling,
          projections>>

ConfidenceThreshold == 70

\* The state before the script runs, for the given surroundings.
Start(file, detector, model) ==
    /\ uploaded_file = file
    /\ chardet = detector
    /\ classifier = model
    /\ pc = "start"
    /\ screen = <<>>
    /\ exception = ""
    /\ raw_data = <<>>
    /\ encoding_detected = ""
    /\ enc_i = 1
    /\ text_decoded = <<>>
    /\ encoding_used = ""
    /\ text = <<>>
    /\ line_i = 1
    /\ rows = <<>>
    /\ df = <<>>
    /\ analyzer = "none"
    /\ msg_i = 1
    /\ calls = <<>>
    /\ sentiments = <<>>
    /\ probs_pos = <<>>
    /\ probs_neu = <<>>
    /\ probs_neg = <<>>
    /\ sent_counts = <<>>
    /\ daily = <<>>
    /\ author_summary = <<>>
    /\ metrics = <<>>

Show(what) == screen' = Append(screen, what)
Goto(place) == pc' = place

\* Lines 254-263: no file was chosen.
NoUpload ==
    /\ pc = "start"
    /\ uploaded_file.kind = "none"
    /\ Show("info:upload")
    /\ Goto("idle")
    /\ UNCHANGED <<surroundings, exception, decoding, parsing, df, labelling,
                   projections>>

\* Lines 23-25: the bytes of the upload.
Read ==
    /\ pc = "start"
    /\ uploaded_file.kind = "file"
    /\ raw_data' = uploaded_file.bytes
    /\ Goto("detect")
    /\ UNCHANGED <<surroundings, screen, exception, encoding_detected, enc_i,
                   text_decoded, encoding_used, parsing, df, labelling, projections>>

\* Lines 26-28: reading raised.
ReadFailed ==
    /\ pc = "start"
    /\ uploaded_file.kind = "unreadable"
    /\ Show("error:read")
    /\ Goto("stopped_read")
    /\ UNCHANGED <<surroundings, exception, decoding, parsing, df, labelling,
                   projections>>

\* Lines 31-41: the encoding to try first.
Detected(detector) ==
    IF detector.raises THEN "latin-1"
    ELSE IF detector.confidence < ConfidenceThreshold \/ detector.encoding = "None"
         THEN "latin-1"
         ELSE detector.encoding
Detect ==
    /\ pc = "detect"
    /\ encoding_detected' = Detected(chardet)
    /\ enc_i' = 1
    /\ text_decoded' = <<>>
    /\ Goto("decode")
    /\ UNCHANGED <<surroundings, screen, exception, raw_data, encoding_used,
                   parsing, df, labelling, projections>>

\* Line 45
encodings_to_try(first) == <<first, "utf-8", "latin-1", "cp1252", "iso-8859-1">>

\* How one pass of the loop of lines 47-53 ends for the answer r of decode:
\* "break", "continue", or "raise" for an exception the except clause does not
\* name.
Attempt(r) ==
    CASE r.ok -> "break"
      [] r.exc = "UnicodeDecodeError" -> "continue"
      [] OTHER -> "raise"

\* One pass of the loop of lines 47-53; the loop ends at a break or after the
\* last candidate.
TryDecode ==
    /\ pc = "decode"
    /\ enc_i <= Len(encodings_to_try(encoding_detected))
    /\ LET enc == encodings_to_try(encoding_detected)[enc_i]
           r   == Decode(raw_data, enc)
           how == Attempt(r)
       IN  /\ text_decoded' = IF how = "break" THEN <<r.text>> ELSE text_decoded
           /\ encoding_used' = IF how = "break" THEN enc ELSE encoding_used
           /\ enc_i' = IF how = "continue" THEN enc_i + 1 ELSE enc_i
           /\ exception' = IF how = "raise" THEN r.exc ELSE exception
           /\ Goto(CASE how = "raise" -> "crashed"
                     [] how = "continue" /\ enc_i' <= Len(encodings_to_try(encoding_detected))
                          -> "decode"
                     [] OTHER -> "split")
    /\ UNCHANGED <<surroundings, screen, raw_data, encoding_detected, parsing, df,
                   labelling, projections>>

\* raw_data.decode("latin-1", errors="ignore") (line 57)
DecodeIgnoring(raw) == DecodeLatin1(raw).text

\* Lines 56-64: the last resort when no candidate decoded, then the lines.
Split ==
    /\ pc = "split"
    /\ LET t == IF text_decoded = <<>> THEN DecodeIgnoring(raw_data)
                ELSE text_decoded[1]
       IN  /\ text_decoded' = <<t>>
           /\ encoding_used' = IF text_decoded = <<>>
                               THEN "latin-1 (com erros ignorados)"
                               ELSE encoding_used
           /\ text' = SplitLines(t)
    /\ line_i' = 1
    /\ rows' = <<>>
    /\ Show("encoding")
    /\ Goto("parse")
    /\ UNCHANGED <<surroundings, exception, raw_data, encoding_detected, enc_i, df,
                   labelling, projections>>

\* One pass of the loop of lines 77-98.
ParseLine ==
    /\ pc = "parse"
    /\ line_i <= Len(text)
    /\ rows' = ParseStep(rows, text[line_i])
    /\ line_i' = line_i + 1
    /\ UNCHANGED <<surroundings, pc, screen, exception, decoding, text, df,
                   labelling, projections>>

\* A script without the check of line 100: it goes on to the filter with
\* whatever the parser gave.
ParsedOn ==
    /\ pc = "parse"
    /\ line_i > Len(text)
    /\ df' = rows
    /\ Goto("filter")
    /\ UNCHANGED <<surroundings, screen, exception, decoding, parsing, labelling,
                   projections>>

\* Lines 100-105, after the loop.
Parsed ==
    /\ pc = "parse"
    /\ line_i > Len(text)
    /\ IF rows = <<>>
       THEN /\ Show("error:no_messages")
            /\ Goto("stopped_norows")
            /\ df' = df
       ELSE /\ df' = rows
            /\ Goto("filter")
            /\ screen' = screen
    /\ UNCHANGED <<surroundings, exception, decoding, parsing, labelling,
                   projections>>

\* Lines 108-129.
Filter ==
    /\ pc = "filter"
    /\ df' = FilterDf(df)
    /\ IF df' = <<>>
       THEN Show("error:no_valid") /\ Goto("stopped_empty")
       ELSE Show("success") /\ Goto("analyzer")
    /\ UNCHANGED <<surroundings, exception, decoding, parsing, labelling,
                   projections>>

\* Lines 137-143, and 164-167 when create_analyzer raises.
CreateAnalyzer ==
    /\ pc = "analyzer"
    /\ IF classifier.creates
       THEN /\ analyzer' = "created"
            /\ Goto("predict")
            /\ screen' = screen
       ELSE /\ analyzer' = analyzer
            /\ Show("error:analysis")
            /\ Goto("stopped_classifier")
    /\ msg_i' = 1
    /\ calls' = <<>>
    /\ sentiments' = <<>>
    /\ probs_pos' = <<>>
    /\ probs_neu' = <<>>
    /\ probs_neg' = <<>>
    /\ UNCHANGED <<surroundings, exception, decoding, parsing, df, projections>>

\* One pass of the loop of lines 145-157: analyzer.predict answers o or raises.
Predict ==
    /\ pc = "predict"
    /\ msg_i <= Len(df)
    /\ \E o \in classifier.answers :
          LET l == Labelled(o)
          IN  /\ sentiments' = Append(sentiments, l.sentimento)
              /\ probs_pos' = Append(probs_pos, l.prob_POS)
              /\ probs_neu' = Append(probs_neu, l.prob_NEU)
              /\ probs_neg' = Append(probs_neg, l.prob_NEG)
              /\ calls' = Append(calls, [text |-> Truncated(df[msg_i].message),
                                         answer |-> o])
    /\ msg_i' = msg_i + 1
    /\ UNCHANGED <<surroundings, pc, screen, exception, decoding, parsing, df,
                   analyzer, projections>>

\* Lines 159-162, after the loop.
Label ==
    /\ pc = "predict"
    /\ msg_i > Len(df)
    /\ df' = AssignColumns(df, sentiments, probs_pos, probs_neu, probs_neg)
    /\ Goto("overall")
    /\ UNCHANGED <<surroundings, screen, exception, decoding, parsing, labelling,
                   projections>>

\* Lines 172-194: the sample and the overall distribution.
Overall ==
    /\ pc = "overall"
    /\ sent_counts' = ValueCounts(Column(df, "sentimento"))
    /\ screen' = screen \o <<"table:sample", "chart:distribution">>
    /\ Goto("daily")
    /\ UNCHANGED <<surroundings, exception, decoding, parsing, df, labelling,
                   daily, author_summary, metrics>>

\* Lines 199-225: the daily trend.
DailyTrend ==
    /\ pc = "daily"
    /\ df' = WithDatetime(df)
    /\ IF DropNaT(df') # <<>>
       THEN daily' = Daily(df') /\ Show("chart:daily")
       ELSE daily' = daily /\ Show("info:no_dates")
    /\ Goto("authors")
    /\ UNCHANGED <<surroundings, exception, decoding, parsing, labelling,
                   sent_counts, author_summary, metrics>>

\* Lines 230-233: the ranking by author.
AuthorSummary ==
    /\ pc = "authors"
    /\ \E t \in [1..Cardinality(AuthorRows(df)) -> AuthorRows(df)] :
          /\ Sorted(AuthorRows(df), t)
          /\ author_summary' = t
    /\ Goto("format")
    /\ UNCHANGED <<surroundings, screen, exception, decoding, parsing, df,
                   labelling, sent_counts, daily, metrics>>

\* Lines 236-240: the percentages, and the table shown.
FormatPercentages ==
    /\ pc = "format"
    /\ author_summary' = Formatted(author_summary)
    /\ Show("table:authors")
    /\ Goto("stats")
    /\ UNCHANGED <<surroundings, exception, decoding, parsing, df, labelling,
                   sent_counts, daily, metrics>>

\* Lines 244-252: the three metrics.
Stats ==
    /\ pc = "stats"
    /\ metrics' = [total |-> Len(df),
                   participants |-> Cardinality({df[i].author : i \in 1..Len(df)}),
                   positive |-> Round1(<<Get(sent_counts, "POS", 0), Len(df)>>)]
    /\ Show("metrics")
    /\ Goto("rendered")
    /\ UNCHANGED <<surroundings, exception, decoding, parsing, df, labelling,
                   sent_counts, daily, author_summary>>

Next ==
    \/ NoUpload \/ Read \/ ReadFailed
    \/ Detect \/ TryDecode \/ Split
    \/ ParseLine \/ Parsed \/ Filter
    \/ CreateAnalyzer \/ Predict \/ Label
    \/ Overall \/ DailyTrend \/ AuthorSummary \/ FormatPercentages \/ Stats

(***************************************************************************)
(* The runs checked: uploads, detector answers and classifiers             *)
(***************************************************************************)
MaxLines == 3
MaxFileLines == 2
MaxMsgs == 3
MaxLabelLines == 2

E_ACUTE == "U+00E9"
AliceLine == S("12/05/2023, 09:15 - Alice: Bom dia!")
BobLine == S("12/05/2023, 09:16 - Bob: Tudo certo?")
ContinuationLine == S("Sim, obrigado")
BracketLine == S("[13/05/2023, 10:00] Ana: oi gente")
PaddedDashLine == S("  13/05/2023 10:01 ") \o <<EnDash>> \o S(" Bob: ok \t")
SystemLine == S("13/05/2023, 10:02 - Ana: Bob SAIU")
LeftLine == S("Carla SAIU")
BlankLine == S("   ")
AccentLine == S("31/02/2023, 08:00 - Jos") \o <<E_ACUTE>> \o S(": at") \o <<E_ACUTE>>
               \o S(" logo")
AnaDay12 == S("12/05/2023, 09:00 - Ana: bom dia")
AnaNoDay == S("31/02/2023, 09:05 - Ana: tudo bem")
BobDay12 == S("12/5/2023, 09:10 - Bob: boa tarde")
BobDay13 == S("13/05/2023, 09:20 - Bob: boa noite")

\* Every sequence of at most n elements of X.
SeqsUpTo(X, n) == UNION {[1..k -> X] : k \in 0..n}
\* The lines as one text, each ended by a line feed.
RECURSIVE JoinLines(_)
JoinLines(ls) ==
    IF ls = <<>> THEN <<>> ELSE Head(ls) \o <<"\n">> \o JoinLines(Tail(ls))
File(bytes) == [kind |-> "file", bytes |-> bytes]
NoFile == [kind |-> "none", bytes |-> <<>>]
Unreadable == [kind |-> "unreadable", bytes |-> <<>>]
Utf8Files(X, n) == {File(EncodeUtf8(JoinLines(ls))) : ls \in SeqsUpTo(X, n)}
Latin1Files(X, n) == {File(EncodeLatin1(JoinLines(ls))) : ls \in SeqsUpTo(X, n)}

\* chardet.detect: it raises, or answers an encoding ("None" for none) with a
\* confidence in hundredths.
Answer(enc, conf) == [raises |-> FALSE, encoding |-> enc, confidence |-> conf]
DetectorRaises == [raises |-> TRUE, encoding |-> "None", confidence |-> 0]
SureUtf8 == Answer("utf-8", 99)
\* The four bytes FE FF 00 00 open a file chardet names X-ISO-10646-UCS-4-3412,
\* with confidence 1.0.
Ucs4File == File(<<"xFE", "xFF", "x00", "x00">> \o S("12/05/2023, 09:15 - Ana: oi\n"))
Ucs4Answer == Answer("X-ISO-10646-UCS-4-3412", 100)
Detectors ==
    {DetectorRaises, Answer("None", 0), SureUtf8, Answer("utf-8", 69),
     Answer("ascii", 70), Answer("Windows-1252", 73), Answer("ISO-8859-1", 80),
     Answer("EUC-TW", 99)}

\* analyzer.predict: a label with its probabilities, or an exception.
Positive == [ok |-> TRUE, output |-> "POS",
             probas |-> [POS |-> <<9, 10>>, NEU |-> <<1, 10>>]]
Neutral == [ok |-> TRUE, output |-> "NEU",
            probas |-> [POS |-> <<1, 10>>, NEU |-> <<8, 10>>, NEG |-> <<1, 10>>]]
Negative == [ok |-> TRUE, output |-> "NEG",
             probas |-> [POS |-> <<1, 10>>, NEU |-> <<2, 10>>, NEG |-> <<7, 10>>]]
Raises == [ok |-> FALSE]
Classifier(creates, answers) == [creates |-> creates, answers |-> answers]
Steady == Classifier(TRUE, {Positive})

\* The runs every specification holds: no upload, and an upload that cannot be
\* read.
Idle == \E f \in {NoFile, Unreadable} : Start(f, SureUtf8, Steady)

\* Every upload of a few lines in either encoding, every detector answer, every
\* classifier.
Init ==
    \/ Idle
    \/ Start(Ucs4File, Ucs4Answer, Steady)
    \/ \E f \in Utf8Files({AliceLine, ContinuationLine, SystemLine, AccentLine},
                          MaxFileLines)
              \cup Latin1Files({AliceLine, ContinuationLine, SystemLine, AccentLine},
                               MaxFileLines),
          d \in Detectors,
          c \in {Classifier(b, {Positive, Negative, Raises}) : b \in BOOLEAN} :
          Start(f, d, c)
Spec == Init /\ [][Next]_vars

\* The parser and the filter: every transcript of a few of the lines above.
InitParse ==
    \/ Idle
    \/ \E f \in Utf8Files({AliceLine, BobLine, ContinuationLine, BracketLine,
                           PaddedDashLine, LeftLine, BlankLine}, MaxLines) :
          Start(f, SureUtf8, Steady)
SpecParse == InitParse /\ [][Next]_vars

\* The labelling loop: every answer of the classifier for every message.
InitLabel ==
    \/ Idle
    \/ \E f \in Utf8Files({AnaDay12, BobDay13, SystemLine}, MaxLabelLines),
          b \in BOOLEAN :
          Start(f, SureUtf8, Classifier(b, {Positive, Neutral, Negative, Raises}))
SpecLabel == InitLabel /\ [][Next]_vars

\* The projections: messages of two authors on two days and on no day, every
\* labelling.
InitAggregate ==
    \/ Idle
    \/ \E f \in Utf8Files({AnaDay12, AnaNoDay, BobDay12, BobDay13}, MaxMsgs) :
          Start(f, SureUtf8, Classifier(TRUE, {Positive, Neutral, Negative}))
SpecAggregate == InitAggregate /\ [][Next]_vars
(***************************************************************************)
(* The properties                                                          *)
(***************************************************************************)
\* The places of the script before the first line is parsed.
BeforeParse == {"start", "idle", "stopped_read", "detect", "decode", "crashed", "split"}
\* The places after the filter let at least one message through or stopped.
AfterFilter == {"stopped_empty", "analyzer", "stopped_classifier", "predict", "overall",
                "daily", "authors", "format", "stats", "rendered"}
\* The trimmed line matches at least one header pattern.
AnyOk(ms) == \E k \in 1..Len(ms) : ms[k].ok
IsHeader(l) == AnyOk(patterns(Strip(l)))
\* What the first header pattern that matches the trimmed line captured.
FirstOk(ms) == ms[CHOOSE k \in 1..Len(ms) : ms[k].ok /\ \A j \in 1..(k - 1) : ~ms[j].ok]
FirstGroups(l) == FirstOk(patterns(Strip(l)))
\* The j-th smallest element of a set of numbers.
NthOf(X, j) == CHOOSE i \in X : Cardinality({h \in X : h <= i}) = j
\* The header lines among the first n lines of the transcript.
HeadersIn(n) == {i \in 1..n : IsHeader(text[i])}
IsPrefix(p, m) == Len(p) <= Len(m) /\ SubSeq(m, 1, Len(p)) = p
Abs(x) == IF x < 0 THEN -x ELSE x

\* C1: at every moment of the parse and after it, the records are one per
\* header line read so far (a line that, trimmed, matches at least one
\* pattern), in the order of the lines; the date, time and author of a record
\* are the trimmed groups of the first pattern that matches its line, and its
\* message starts with the trimmed message group and is exactly that group
\* when the header is the line just read.  A line that matches several
\* patterns gives one record.
RecordOfGroups(r, g, last) ==
    /\ DOMAIN r = {"date", "time", "author", "message"}
    /\ r.date = Strip(g.date)
    /\ r.time = Strip(g.time)
    /\ r.author = Strip(g.author)
    /\ IsPrefix(Strip(g.msg), r.message)
    /\ last => r.message = Strip(g.msg)
RecordOfLine(r, i) == RecordOfGroups(r, FirstGroups(text[i]), i = line_i - 1)
RecordsOfHeaders(H) ==
    /\ Len(rows) = Cardinality(H)
    /\ \A j \in 1..Len(rows) : RecordOfLine(rows[j], NthOf(H, j))
C1_OneRecordPerHeader == RecordsOfHeaders(HeadersIn(line_i - 1))
\* A finished parse of a transcript with a line that matches two patterns and a
\* line that matches only the bracketed one.
C1_Witness ==
    /\ pc = "parse"
    /\ line_i > Len(text)
    /\ Len(rows) >= 2
    /\ \E i \in 1..Len(text) :
          Pattern1(Strip(text[i])).ok /\ Pattern2(Strip(text[i])).ok
    /\ \E i \in 1..Len(text) :
          ~Pattern1(Strip(text[i])).ok /\ Pattern2(Strip(text[i])).ok

\* One step of the parse over a continuation line: a line that is not empty
\* once trimmed and matches no header pattern.
ContinuationStep ==
    (/\ pc = "parse"
     /\ line_i <= Len(text)
     /\ Strip(text[line_i]) # <<>>
     /\ ~IsHeader(text[line_i]))
    => IF rows = <<>> THEN rows' = <<>>
       ELSE /\ Len(rows') = Len(rows)
            /\ \A j \in 1..(Len(rows) - 1) : rows'[j] = rows[j]
            /\ rows'[Len(rows)] =
                  [rows[Len(rows)] EXCEPT !.message = @ \o <<" ">> \o Strip(text[line_i])]
\* The transcript of the example, parsed to its end, gives two records, the
\* second with the message "Tudo certo? Sim, obrigado".
ContinuationExample ==
    (text = <<AliceLine, BobLine, ContinuationLine>> /\ line_i > Len(text))
    => rows = << [date |-> S("12/05/2023"), time |-> S("09:15"), author |-> S("Alice"),
                  message |-> S("Bom dia!")],
                 [date |-> S("12/05/2023"), time |-> S("09:16"), author |-> S("Bob"),
                  message |-> S("Tudo certo? Sim, obrigado")] >>
\* C2: a line that is not empty (once trimmed, as the loop holds it) and
\* matches no header pattern is joined, as one space and the trimmed line, to
\* the end of the message of the last record opened; it changes no other
\* record and opens none; before the first record it is dropped.  The example
\* transcript gives the two records of the claim.
C2_Continuation == [][ContinuationStep]_vars /\ []ContinuationExample
\* The example transcript, parsed.
C2_Witness ==
    /\ text = <<AliceLine, BobLine, ContinuationLine>>
    /\ line_i > Len(text)
    /\ Len(rows) = 2
    /\ rows[2].message = S("Tudo certo? Sim, obrigado")

\* C9: a parsed record survives the filter exactly when its final, merged
\* message contains no system keyword once lowered and is longer than 2
\* characters; the survivors keep the order of the parse and their fields.
Survives(r) ==
    /\ Len(r.message) > 2
    /\ \A k \in 1..Len(system_keywords) : ~Contains(Lower(r.message), system_keywords[k])
Kept == {j \in 1..Len(rows) : Survives(rows[j])}
SurvivorsAre(K) ==
    /\ Len(df) = Cardinality(K)
    /\ \A m \in 1..Len(df) :
          [f \in {"date", "time", "author", "message"} |-> df[m][f]] = rows[NthOf(K, m)]
    /\ K = {} <=> pc = "stopped_empty"
C9_FilterOnMergedMessage == pc \in AfterFilter => SurvivorsAre(Kept)
\* A record whose keyword, in capitals, came with its continuation line is
\* removed, and the record before it stays.
C9_Witness ==
    /\ pc = "analyzer"
    /\ text = <<AliceLine, BobLine, LeftLine>>
    /\ rows[2].message = S("Tudo certo? Carla SAIU")
    /\ Len(df) = 1
    /\ df[1] = rows[1]
\* No line of the transcript is a header.
NoHeaders == \A i \in 1..Len(text) : ~IsHeader(text[i])
\* Nothing was filtered, classified or aggregated.
NothingDone ==
    /\ df = <<>>
    /\ analyzer = "none"
    /\ calls = <<>>
    /\ sentiments = <<>> /\ probs_pos = <<>> /\ probs_neu = <<>> /\ probs_neg = <<>>
    /\ sent_counts = <<>> /\ daily = <<>> /\ author_summary = <<>> /\ metrics = <<>>
\* C3: when the transcript has no line or no line is a header, the parse
\* raises nothing and ends with no record; the script then shows the error,
\* stops there and never filters, classifies or aggregates.
C3_EmptyParseStops ==
    (pc \notin BeforeParse /\ NoHeaders) =>
        /\ rows = <<>>
        /\ exception = ""
        /\ NothingDone
        /\ pc \in {"parse", "stopped_norows"}
        /\ pc = "stopped_norows" =>
              /\ screen[Len(screen)] = "error:no_messages"
              /\ ~ENABLED Next
\* The script stopped after a transcript of lines none of which is a header.
C3_Witness ==
    /\ pc = "stopped_norows"
    /\ Len(text) >= 2
    /\ NoHeaders
    /\ ~ENABLED Next

\* C4: the encoding resolution never raises: once past the loop of candidates
\* the script holds a decoded text, whatever name the detector gave.
C4_DecodeNeverRaises ==
    /\ exception = ""
    /\ pc \notin {"start", "idle", "stopped_read", "detect", "decode"} =>
          Len(text_decoded) = 1

\* The five ends of a run on an upload.
FinalStates == {"stopped_read", "stopped_norows", "stopped_empty", "stopped_classifier",
                "rendered"}
\* The places from which the script goes on.
Stages == {"start", "detect", "decode", "split", "parse", "filter", "analyzer",
           "predict", "overall", "daily", "authors", "format", "stats"}
\* C10: a run on an upload ends in exactly one of the five final states: where
\* the script is past its stages and can take no step, it is in one of them.
C10_EndsInFinalState ==
    (uploaded_file.kind # "none" /\ pc \notin Stages /\ ~ENABLED Next)
        => pc \in FinalStates

\* The values the loop recorded for message i.
Recorded(i) == <<sentiments[i], probs_pos[i], probs_neu[i], probs_neg[i]>>
\* C5: a call of the classifier that raises for one message records NEU with
\* the probabilities 0, 1, 0 for it and does not end the loop: the messages
\* after it are classified too, and after the loop every filtered message has
\* one label and one triple of probabilities, at its own position.
C5_FailureIsNeutral ==
    /\ Len(sentiments) = Len(calls)
    /\ Len(probs_pos) = Len(calls) /\ Len(probs_neu) = Len(calls)
    /\ Len(probs_neg) = Len(calls)
    /\ \A i \in 1..Len(calls) :
          /\ ~calls[i].answer.ok => Recorded(i) = <<"NEU", Zero, One, Zero>>
          /\ calls[i].answer.ok => sentiments[i] = calls[i].answer.output
          /\ i <= Len(df) /\ calls[i].text = Truncated(df[i].message)
    /\ pc = "predict" => Len(calls) = msg_i - 1
    /\ pc = "stopped_classifier" => calls = <<>>
    /\ pc \in {"overall", "daily", "authors", "format", "stats", "rendered"} =>
          /\ Len(calls) = Len(df)
          /\ \A i \in 1..Len(df) :
                <<df[i].sentimento, df[i].prob_POS, df[i].prob_NEU, df[i].prob_NEG>>
                    = Recorded(i)
\* The first of two messages failed, the second was classified, and both are
\* labelled.
C5_Witness ==
    /\ pc = "overall"
    /\ Len(df) = 2
    /\ ~calls[1].answer.ok
    /\ calls[2].answer.ok
    /\ df[1].sentimento = "NEU" /\ df[1].prob_NEU = One
    /\ df[2].sentimento = "NEG"
\* The labelled messages of author a, and those of them with the label l.
ByAuthor(a) == {i \in 1..Len(df) : df[i].author = a}
ByAuthorLabel(a, l) == {i \in ByAuthor(a) : df[i].sentimento = l}
\* The sum of the numerators of the entries of a row of shares.
Numerators(share) == SumOver([l \in DOMAIN share |-> share[l][1]], DOMAIN share)
\* The table has one row per author, with the number of the author's messages
\* as its total, the rows by falling total.
RankedByTotal(t) ==
    /\ Len(t) = Cardinality({df[i].author : i \in 1..Len(df)})
    /\ {t[i].author : i \in 1..Len(t)} = {df[i].author : i \in 1..Len(df)}
    /\ \A i \in 1..Len(t) : t[i].Total_Msgs = Cardinality(ByAuthor(t[i].author))
    /\ \A i \in 1..(Len(t) - 1) : t[i].Total_Msgs >= t[i + 1].Total_Msgs
\* The share of each label in a row is exact: the author's messages with the
\* label over the author's messages.
ExactShares(r) ==
    /\ \A l \in DOMAIN r.share :
          r.share[l] = <<Cardinality(ByAuthorLabel(r.author, l)), r.Total_Msgs>>
    /\ Numerators(r.share) = r.Total_Msgs
\* Each entry of a row is a percentage in tenths, the nearest to the exact
\* share, so that the row sums to 100% within 0.05 for each label.
NearestTenths(r) ==
    /\ \A l \in DOMAIN r.share :
          /\ r.share[l][2] = 10
          /\ 2 * Abs(r.share[l][1] * r.Total_Msgs
                     - 1000 * Cardinality(ByAuthorLabel(r.author, l))) <= r.Total_Msgs
    /\ 2 * Abs(Numerators(r.share) - 1000) <= Cardinality(DOMAIN r.share)

\* C6 as written: in the ranking shown, the entries of every author sum to
\* 100%, the total is the number of the author's messages and the rows are by
\* falling total.
C6_SharesSumTo100 ==
    pc \in {"stats", "rendered"} =>
        /\ RankedByTotal(author_summary)
        /\ \A i \in 1..Len(author_summary) :
              Numerators(author_summary[i].share) = 1000
\* C6: for every author the shares over the labels, as computed, sum to
\* exactly 1 and the total is the number of the author's messages, the rows by
\* falling total; the ranking shown holds each share as a percentage rounded to
\* one decimal, so that a row sums to 100% within 0.05 for each label.
C6_SharesThenRounded ==
    /\ pc = "format" =>
          /\ RankedByTotal(author_summary)
          /\ \A i \in 1..Len(author_summary) : ExactShares(author_summary[i])
    /\ pc \in {"stats", "rendered"} =>
          /\ RankedByTotal(author_summary)
          /\ \A i \in 1..Len(author_summary) : NearestTenths(author_summary[i])
\* The ranking shown has an author of three messages, one of each label, whose
\* percentages sum to 99.9.
C6_Witness ==
    /\ pc = "rendered"
    /\ \E i \in 1..Len(author_summary) :
          /\ author_summary[i].Total_Msgs = 3
          /\ DOMAIN author_summary[i].share = Labels
          /\ Numerators(author_summary[i].share) = 999

\* The day of each message: what its date field parses to.
Days == [i \in 1..Len(df) |-> ParseDate(df[i].date)]
\* The messages whose date parses.
Dated == {i \in 1..Len(df) : Days[i] # NaT}
\* For the days of the messages, the trend has a row for each day of a dated
\* message, with the share of each label among the messages of the day.
TrendOver(days) ==
    IF \A i \in DOMAIN days : days[i] = NaT THEN daily = <<>>
    ELSE /\ DOMAIN daily = {days[i] : i \in DOMAIN days} \ {NaT}
         /\ \A d \in DOMAIN daily :
               /\ DOMAIN daily[d] = {df[i].sentimento : i \in {j \in DOMAIN days : days[j] # NaT}}
               /\ \A l \in DOMAIN daily[d] :
                     daily[d][l] =
                        <<Cardinality({i \in DOMAIN days : days[i] = d /\ df[i].sentimento = l}),
                          Cardinality({i \in DOMAIN days : days[i] = d})>>
               /\ Numerators(daily[d]) = Cardinality({i \in DOMAIN days : days[i] = d})
\* Every message, dated or not, is counted in the overall distribution, in its
\* author's total and in the total of the statistics.
AllCounted ==
    /\ metrics.total = Len(df)
    /\ Total(sent_counts) = Len(df)
    /\ \A i \in 1..Len(df) :
          /\ sent_counts[df[i].sentimento]
                = Cardinality({j \in 1..Len(df) : df[j].sentimento = df[i].sentimento})
          /\ \E k \in 1..Len(author_summary) :
                /\ author_summary[k].author = df[i].author
                /\ author_summary[k].Total_Msgs = Cardinality(ByAuthor(df[i].author))
\* C7: the daily trend is over the messages whose date parses: for each of
\* their days the share of a label is the messages of the day with the label
\* over the messages of the day, and the shares of a day sum to 1; a message
\* whose date does not parse is in no day and is still counted in the overall
\* distribution, the ranking and the total.
C7_DailyTrendOverDated ==
    /\ pc \in {"authors", "format", "stats", "rendered"} => TrendOver(Days)
    /\ pc = "rendered" => AllCounted
\* A finished run with a message of no date and a day of two labels.
C7_Witness ==
    /\ pc = "rendered"
    /\ Dated # {}
    /\ Dated # 1..Len(df)
    /\ \E d \in DOMAIN daily : \E l \in DOMAIN daily[d] :
          daily[d][l][1] > 0 /\ daily[d][l][1] < daily[d][l][2]

\* The places of the projections.
Projecting == {"overall", "daily", "authors", "format", "stats"}
\* C8 as written: no projection changes the labelled messages, their fields
\* or the set of their fields.
LeavesDf == pc \in Projecting => df' = df
KeepsMessages ==
    pc \in Projecting =>
        /\ Len(df') = Len(df)
        /\ \A i \in 1..Len(df) :
              /\ DOMAIN df[i] \subseteq DOMAIN df'[i]
              /\ DOMAIN df'[i] \subseteq DOMAIN df[i] \cup {"datetime"}
              /\ \A f \in DOMAIN df[i] : df'[i][f] = df[i][f]
\* The projections computed again over the messages of the finished run are
\* the ones the run holds.
SameAgain ==
    pc = "rendered" =>
        /\ sent_counts = ValueCounts(Column(df, "sentimento"))
        /\ daily = IF DropNaT(WithDatetime(df)) # <<>> THEN Daily(WithDatetime(df))
                   ELSE <<>>
        /\ {author_summary[i] : i \in 1..Len(author_summary)}
              = {[r EXCEPT !.share = [l \in DOMAIN @ |-> Round1(@[l])]] : r \in AuthorRows(df)}
        /\ metrics = [total |-> Len(df),
                      participants |-> Cardinality({df[i].author : i \in 1..Len(df)}),
                      positive |-> Round1(<<Get(sent_counts, "POS", 0), Len(df)>>)]
====
